---- MODULE Spec2Model ----
(***************************************************************************)
(* Model of the DOM query cache (src/src/utils/domCache.ts) and of the     *)
(* tools built on it (src/src/tools/cache.ts): browser_query_dom,          *)
(* browser_clear_cache and browser_cache_status.                           *)
(*                                                                         *)
(* Strings are TLA+ strings, concatenated with \o as the template literal  *)
(* of generateKey does.  An optional parameter is <<>> when it is absent   *)
(* (undefined) and <<v>> when it is given.  The Map of the cache is the    *)
(* sequence of its entries in insertion order, which is the order in which *)
(* a JavaScript Map iterates.                                              *)
(***************************************************************************)
EXTENDS Integers, Sequences, FiniteSets, TLC

VARIABLES
    cache,       \* DOMCache.cache: the entries, in insertion order
    maxAge,      \* DOMCache.maxAge, in milliseconds
    maxEntries,  \* DOMCache.maxEntries
    now,         \* what Date.now() returns
    pageUrl,     \* what tab.page.url() returns
    doc,         \* the version of the live document of the page
    calls,       \* the browser_query_dom calls: idle, or awaiting the evaluation
    last         \* the last completed call: its name, arguments and result

vars == <<cache, maxAge, maxEntries, now, pageUrl, doc, calls, last>>

cacheVars == <<cache, maxAge, maxEntries, now>>
toolVars == <<pageUrl, doc, calls>>

-----------------------------------------------------------------------------
(* Bounds of the model *)

\* the constructor's maxEntries
MaxEntries == 2
\* the constructor's maxAgeSeconds
MaxAgeSeconds == 1

\* milliseconds per second: maxAgeSeconds * 1000, ageSeconds * 1000
MsPerSecond == 1000
\* generateKey: params.offset || 0
KeyDefaultOffset == 0
\* generateKey: params.limit || 20
KeyDefaultLimit == 20

(* The instants at which the clock is read: the start, and one millisecond *)
(* before, exactly at and one millisecond after the start plus the maximum *)
(* age.                                                                    *)
Instants ==
    { 0 } \cup { MaxAgeSeconds * MsPerSecond + o : o \in { -1, 0, 1 } }

-----------------------------------------------------------------------------
(* Optional values and JavaScript's || *)

None == <<>>
Some(v) == <<v>>

\* o || d for a string: undefined and '' are falsy
StrOr(o, d) == IF o = None THEN d ELSE IF o[1] = "" THEN d ELSE o[1]

\* o || d for a number: undefined and 0 are falsy
NumOr(o, d) == IF o = None THEN d ELSE IF o[1] = 0 THEN d ELSE o[1]

\* if (o): whether an optional string is truthy
StrTruthy(o) == o # None /\ o[1] # ""

-----------------------------------------------------------------------------
(* The Map<string, CacheEntry>, as a sequence of entries [key, data,       *)
(* timestamp, url, selector, searchText] in insertion order.               *)

MapHas(m, k) == \E i \in 1..Len(m) : m[i].key = k

MapIndex(m, k) == CHOOSE i \in 1..Len(m) : m[i].key = k

MapGet(m, k) == m[MapIndex(m, k)]

MapDelete(m, k) == SelectSeq(m, LAMBDA e : e.key # k)

\* a set that appends the entry whether or not its key is present
MapSetAppends(m, e) == Append(m, e)

\* Map.set keeps the position of a key that is present and appends a new one
MapSet(m, e) ==
    IF MapHas(m, e.key)
    THEN [i \in 1..Len(m) |-> IF m[i].key = e.key THEN e ELSE m[i]]
    ELSE Append(m, e)

MapKeys(m) == { m[i].key : i \in 1..Len(m) }

Entries(m) == { m[i] : i \in 1..Len(m) }

-----------------------------------------------------------------------------
(* DOMCache *)

generateKey(url, params) ==
    url \o ":" \o StrOr(params.selector, "") \o ":" \o StrOr(params.searchText, "")
        \o ":" \o ToString(NumOr(params.offset, KeyDefaultOffset))
        \o ":" \o ToString(NumOr(params.limit, KeyDefaultLimit))

\* the index of the first entry with the smallest timestamp, 0 for an empty map
RECURSIVE OldestFrom(_, _, _)
OldestFrom(m, i, best) ==
    IF i > Len(m) THEN best
    ELSE IF best = 0 \/ m[i].timestamp < m[best].timestamp
         THEN OldestFrom(m, i + 1, i)
         ELSE OldestFrom(m, i + 1, best)

\* the index of the last entry with the smallest timestamp: <= for <
RECURSIVE LastOldestFrom(_, _, _)
LastOldestFrom(m, i, best) ==
    IF i > Len(m) THEN best
    ELSE IF best = 0 \/ m[i].timestamp <= m[best].timestamp
         THEN LastOldestFrom(m, i + 1, i)
         ELSE LastOldestFrom(m, i + 1, best)

findOldestEntryLastOfTies(m) ==
    LET i == LastOldestFrom(m, 1, 0) IN IF i = 0 THEN None ELSE Some(m[i].key)

\* findOldestEntry: a key, or None for null
findOldestEntry(m) ==
    LET i == OldestFrom(m, 1, 0) IN IF i = 0 THEN None ELSE Some(m[i].key)

\* set that evicts only above capacity: > for >=
SetStoreAboveCapacity(m, cap, t, url, params, data) ==
    LET key == generateKey(url, params)
        oldestKey == findOldestEntry(m)
        evicted == IF Len(m) > cap /\ ~MapHas(m, key) /\ oldestKey # None
                   THEN MapDelete(m, oldestKey[1])
                   ELSE m
    IN  MapSet(evicted, [key |-> key, data |-> data, timestamp |-> t, url |-> url,
                         selector |-> params.selector, searchText |-> params.searchText])

\* set that keeps the entry of a key that is present
SetStoreKeepsPresent(m, cap, t, url, params, data) ==
    LET key == generateKey(url, params)
        oldestKey == findOldestEntry(m)
        evicted == IF Len(m) >= cap /\ ~MapHas(m, key) /\ oldestKey # None
                   THEN MapDelete(m, oldestKey[1])
                   ELSE m
    IN  IF MapHas(m, key) THEN m
        ELSE MapSet(evicted, [key |-> key, data |-> data, timestamp |-> t, url |-> url,
                              selector |-> params.selector, searchText |-> params.searchText])

\* set that evicts at capacity whether or not the key is present
SetStoreEvictsWhenPresent(m, cap, t, url, params, data) ==
    LET key == generateKey(url, params)
        oldestKey == findOldestEntry(m)
        evicted == IF Len(m) >= cap /\ oldestKey # None
                   THEN MapDelete(m, oldestKey[1])
                   ELSE m
    IN  MapSet(evicted, [key |-> key, data |-> data, timestamp |-> t, url |-> url,
                         selector |-> params.selector, searchText |-> params.searchText])

\* the store after set(url, params, data) at time t
SetStore(m, cap, t, url, params, data) ==
    LET key == generateKey(url, params)
        oldestKey == findOldestEntry(m)
        evicted == IF Len(m) >= cap /\ ~MapHas(m, key) /\ oldestKey # None
                   THEN MapDelete(m, oldestKey[1])
                   ELSE m
    IN  MapSet(evicted, [key |-> key, data |-> data, timestamp |-> t, url |-> url,
                         selector |-> params.selector, searchText |-> params.searchText])

\* whether get(url, params) at time t finds an entry that it has to delete
GetExpires(m, age, t, url, params) ==
    LET key == generateKey(url, params)
    IN  MapHas(m, key) /\ t - MapGet(m, key).timestamp > age

\* get that returns the payload of an entry whatever its age
GetValueAnyAge(m, age, t, url, params) ==
    LET key == generateKey(url, params)
    IN  IF ~MapHas(m, key) THEN None ELSE Some(MapGet(m, key).data)

\* what get(url, params) returns at time t: None for null
GetValue(m, age, t, url, params) ==
    LET key == generateKey(url, params)
    IN  IF ~MapHas(m, key) THEN None
        ELSE IF t - MapGet(m, key).timestamp > age THEN None
        ELSE Some(MapGet(m, key).data)

\* get that returns null for an expired entry and leaves it in the store
GetStoreNoDelete(m, age, t, url, params) == m

\* the store after get(url, params) at time t
GetStore(m, age, t, url, params) ==
    IF GetExpires(m, age, t, url, params)
    THEN MapDelete(m, generateKey(url, params))
    ELSE m

\* invalidate that clears the store whatever url is
InvalidateStoreClearsAll(m, url) == <<>>

\* invalidate that compares the stored url with undefined when no url is given
InvalidateStoreNoClear(m, url) ==
    IF StrTruthy(url)
    THEN SelectSeq(m, LAMBDA e : e.url # url[1])
    ELSE m

\* the store after invalidate(url)
InvalidateStore(m, url) ==
    IF StrTruthy(url)
    THEN SelectSeq(m, LAMBDA e : e.url # url[1])
    ELSE <<>>

\* invalidateOlderThan that takes ageSeconds for milliseconds
InvalidateOlderThanStoreNoScale(m, t, ageSeconds) ==
    SelectSeq(m, LAMBDA e : ~(t - e.timestamp > ageSeconds))

\* the store after invalidateOlderThan(ageSeconds) at time t
InvalidateOlderThanStore(m, t, ageSeconds) ==
    SelectSeq(m, LAMBDA e : ~(t - e.timestamp > ageSeconds * MsPerSecond))

size(m) == Len(m)

\* the entries of m whose key is no longer in m2
Removed(m, m2) == { e \in Entries(m) : ~MapHas(m2, e.key) }

-----------------------------------------------------------------------------
(* The inputs of the calls *)

\* page URLs; a URL may hold the key's delimiter
Urls == { "p", "p:q" }

\* the versions of the document
DocVersions == { 1, 2 }

\* the result of a script evaluated in version d of the document
Result(script, d) ==
    [kind |-> script.kind, offset |-> script.offset, limit |-> script.limit, doc |-> d]

Shape(sel, txt, off, lim) ==
    [selector |-> sel, searchText |-> txt, offset |-> off, limit |-> lim]

\* the query shapes handed to get and set
Shapes ==
    { Shape(Some("q"), None, Some(0), Some(20)),
      Shape(None, Some(":"), None, None) }

\* result payloads handed to set
Payloads ==
    { Result([kind |-> "selector", offset |-> 0, limit |-> 20], d) : d \in DocVersions }

\* the thresholds handed to invalidateOlderThan
AgeSeconds == 0..(MaxAgeSeconds + 1)

-----------------------------------------------------------------------------
(* The state after construction: new DOMCache(maxAgeSeconds, maxEntries),  *)
(* a page, and no call running.                                            *)

\* what the record of a get keeps of the call before it: the key it wrote,
\* when it was a set
KeySetBy(r) == IF r.op = "set" THEN Some(generateKey(r.url, r.params)) ELSE None

\* what the record of an invalidate keeps of the call before it: whether it
\* was an invalidate() that emptied a store holding entries
IsFullClear(r) == r.op = "invalidate" /\ r.url = None /\ r.removed # {}

CallIds == { 1 }

Idle == [pc |-> "idle"]

Init ==
    /\ cache = <<>>
    /\ maxAge = MaxAgeSeconds * MsPerSecond
    /\ maxEntries = MaxEntries
    /\ now = 0
    /\ pageUrl = "p"
    /\ doc = 1
    /\ calls = [c \in CallIds |-> Idle]
    /\ last = [op |-> "new"]

-----------------------------------------------------------------------------
(* The calls on the cache *)

\* domCache.get(url, params)
CacheGet(url, params) ==
    /\ cache' = GetStore(cache, maxAge, now, url, params)
    /\ last' = [op |-> "get", url |-> url, params |-> params,
                ret |-> GetValue(cache, maxAge, now, url, params),
                removed |-> Removed(cache, cache'), afterSet |-> KeySetBy(last)]
    /\ UNCHANGED <<maxAge, maxEntries, now>>
    /\ UNCHANGED toolVars

\* domCache.set(url, params, data)
CacheSet(url, params, data) ==
    /\ cache' = SetStore(cache, maxEntries, now, url, params, data)
    /\ last' = [op |-> "set", url |-> url, params |-> params, data |-> data,
                at |-> now, removed |-> Removed(cache, cache'),
                had |-> MapHas(cache, generateKey(url, params))]
    /\ UNCHANGED <<maxAge, maxEntries, now>>
    /\ UNCHANGED toolVars

\* domCache.invalidate(url), url optional
CacheInvalidate(url) ==
    /\ cache' = InvalidateStore(cache, url)
    /\ last' = [op |-> "invalidate", url |-> url, removed |-> Removed(cache, cache'),
                afterClear |-> IsFullClear(last)]
    /\ UNCHANGED <<maxAge, maxEntries, now>>
    /\ UNCHANGED toolVars

\* domCache.invalidateOlderThan(ageSeconds)
CacheInvalidateOlderThan(ageSeconds) ==
    /\ cache' = InvalidateOlderThanStore(cache, now, ageSeconds)
    /\ last' = [op |-> "invalidateOlderThan", ageSeconds |-> ageSeconds,
                removed |-> Removed(cache, cache')]
    /\ UNCHANGED <<maxAge, maxEntries, now>>
    /\ UNCHANGED toolVars

\* time passes: nothing runs in the background
Tick ==
    /\ \E t \in Instants : t > now /\ now' = t
    /\ UNCHANGED <<cache, maxAge, maxEntries, last>>
    /\ UNCHANGED toolVars

\* the cache used directly
NextCache ==
    \/ \E url \in Urls, params \in Shapes : CacheGet(url, params)
    \/ \E url \in Urls, params \in Shapes, data \in Payloads : CacheSet(url, params, data)
    \/ \E url \in { None } \cup { Some(u) : u \in Urls } : CacheInvalidate(url)
    \/ \E ageSeconds \in AgeSeconds : CacheInvalidateOlderThan(ageSeconds)
    \/ Tick

SpecCache == Init /\ [][NextCache]_vars

-----------------------------------------------------------------------------
(* browser_query_dom, browser_clear_cache, browser_cache_status *)

\* z.number().optional().default(20), and params.limit || 20
LimitDefault == 20
\* Math.min(params.limit || 20, 100)
LimitMax == 100
\* z.number().optional().default(0), and params.offset || 0
OffsetDefault == 0

InvalidArgument == "Either selector or searchText must be provided"
EvaluationFailure == "page.evaluate threw"

Min(a, b) == IF a <= b THEN a ELSE b

\* the input of browser_query_dom; includeAttributes and maxTextLength only
\* fill the script in and are left out
Query(sel, txt, lim, off, use, force) ==
    [selector |-> sel, searchText |-> txt, limit |-> lim, offset |-> off,
     useCache |-> use, forceRefresh |-> force]

\* the input as the handler gets it, the defaults of the schema filled in
Parsed(input) ==
    [selector |-> input.selector,
     searchText |-> input.searchText,
     limit |-> IF input.limit = None THEN LimitDefault ELSE input.limit[1],
     offset |-> IF input.offset = None THEN OffsetDefault ELSE input.offset[1],
     useCache |-> IF input.useCache = None THEN TRUE ELSE input.useCache[1],
     forceRefresh |-> IF input.forceRefresh = None THEN FALSE ELSE input.forceRefresh[1]]

\* const limit = Math.min(params.limit || 20, 100)
EffectiveLimit(params) == Min(NumOr(Some(params.limit), LimitDefault), LimitMax)

\* const offset = params.offset || 0
EffectiveOffset(params) == NumOr(Some(params.offset), OffsetDefault)

\* the shape handed to domCache.get and domCache.set
QueryShape(params) ==
    Shape(params.selector, params.searchText,
          Some(EffectiveOffset(params)), Some(EffectiveLimit(params)))

\* the cache check without its !params.forceRefresh
ChecksCacheIgnoresForce(params) == params.useCache

\* if (params.useCache && !params.forceRefresh)
ChecksCache(params) == params.useCache /\ ~params.forceRefresh

\* the script the handler builds: by selector, by search text, or none (throw)
ScriptKind(params) ==
    IF StrTruthy(params.selector) THEN "selector"
    ELSE IF StrTruthy(params.searchText) THEN "search"
    ELSE "none"

Script(params) ==
    [kind |-> ScriptKind(params), offset |-> EffectiveOffset(params),
     limit |-> EffectiveLimit(params)]

\* a set that runs whatever useCache is
StoreAfterEvaluationIgnoresUseCache(m, cap, t, call, threw, result) ==
    IF ~threw
    THEN SetStore(m, cap, t, call.url, call.shape, result)
    ELSE m

\* a set that runs whether the evaluation returned or threw
StoreAfterEvaluationAlways(m, cap, t, call, threw, result) ==
    IF call.params.useCache
    THEN SetStore(m, cap, t, call.url, call.shape, result)
    ELSE m

\* the store after the evaluation of a call ended: set, if (params.useCache),
\* when it returned a result, and nothing when it threw
StoreAfterEvaluation(m, cap, t, call, threw, result) ==
    IF ~threw /\ call.params.useCache
    THEN SetStore(m, cap, t, call.url, call.shape, result)
    ELSE m

\* the inputs of browser_query_dom
Queries ==
    { Query(Some("q"), Some(":"), None, None, None, None),
      Query(Some("q"), Some(":"), None, None, Some(TRUE), Some(TRUE)),
      Query(Some("q"), Some(":"), None, None, Some(FALSE), None),
      Query(Some("q"), Some(":"), None, None, Some(FALSE), Some(TRUE)),
      Query(None, None, None, None, None, None) }

\* the inputs of browser_clear_cache
Clears ==
    { [url |-> None, olderThanSeconds |-> None],
      [url |-> Some("p"), olderThanSeconds |-> None],
      [url |-> Some("p"), olderThanSeconds |-> Some(1)],
      [url |-> None, olderThanSeconds |-> Some(0)],
      [url |-> Some("p"), olderThanSeconds |-> Some(0)] }

(* Where a starting call stands in the scenario of three successive queries *)
(* of one page and shape, by what it is given and what the store holds:    *)
(* 1 for a query with useCache that finds no entry under its key, 2 for a  *)
(* query that checks the cache, directly after the answer of a first one   *)
(* and before its entry expires, 3 for a query with forceRefresh directly  *)
(* after the answer of a second one, 0 otherwise.                          *)
Stage(r, store, age, t, url, params) ==
    LET key == generateKey(url, QueryShape(params))
        follows == /\ r.op = "query"
                   /\ r.outcome = "result"
                   /\ r.url = url
                   /\ QueryShape(r.params) = QueryShape(params)
    IN  IF follows /\ r.stage = 2 /\ params.useCache /\ params.forceRefresh
        THEN 3
        ELSE IF /\ follows /\ r.stage = 1 /\ params.useCache /\ ~params.forceRefresh
                /\ MapHas(store, key) => t - MapGet(store, key).timestamp <= age
        THEN 2
        ELSE IF params.useCache /\ ScriptKind(params) # "none" /\ ~MapHas(store, key)
        THEN 1
        ELSE 0

\* whether call a awaits its evaluation under the cache key of call b
InFlightOn(a, b) ==
    /\ a.pc = "evaluating"
    /\ generateKey(a.url, a.shape) = generateKey(b.url, b.shape)

\* the record of a browser_query_dom call that has answered
Answer(call, outcome, fromCache, data, error, evaluated, removed, wrote) ==
    [op |-> "query", url |-> call.url, params |-> call.params,
     outcome |-> outcome, fromCache |-> fromCache, data |-> data, error |-> error,
     evaluated |-> evaluated, removed |-> removed, wrote |-> wrote,
     stage |-> call.stage, base |-> call.base, race |-> call.race,
     age |-> call.age, overtaken |-> call.overtaken]

\* handle, to the await of the evaluation: the cache check, the choice of the
\* script, the throw when there is none
QueryStart(c, input) ==
    /\ calls[c].pc = "idle"
    /\ LET params == Parsed(input)
           currentUrl == pageUrl
           shape == QueryShape(params)
           cached == IF ChecksCache(params)
                     THEN GetValue(cache, maxAge, now, currentUrl, shape)
                     ELSE None
           stage == Stage(last, cache, maxAge, now, currentUrl, params)
           awaits == cached = None /\ ScriptKind(params) # "none"
           peers == { d \in DOMAIN calls \ { c } :
                        InFlightOn(calls[d], [url |-> currentUrl, shape |-> shape]) }
           call == [pc |-> "evaluating", params |-> params, url |-> currentUrl,
                    shape |-> shape, stage |-> stage,
                    base |-> IF stage = 2 THEN last.data ELSE None,
                    removed |-> Removed(cache, cache'),
                    race |-> IF awaits /\ peers # {} THEN "started" ELSE "none",
                    overtaken |-> FALSE,
                    age |-> IF cached = None THEN None
                            ELSE Some(now - MapGet(cache, generateKey(currentUrl, shape)).timestamp)]
       IN  /\ cache' = IF ChecksCache(params)
                       THEN GetStore(cache, maxAge, now, currentUrl, shape)
                       ELSE cache
           /\ IF cached # None
              THEN /\ last' = Answer(call, "result", TRUE, cached, None, FALSE,
                                     call.removed, FALSE)
                   /\ calls' = calls
              ELSE IF ScriptKind(params) = "none"
              THEN /\ last' = Answer(call, "error", FALSE, None, Some(InvalidArgument),
                                     FALSE, call.removed, FALSE)
                   /\ calls' = calls
              ELSE /\ last' = last
                   /\ calls' = [d \in DOMAIN calls |->
                                   IF d = c THEN call
                                   ELSE IF d \in peers /\ calls[d].race = "none"
                                   THEN [calls[d] EXCEPT !.race = "started"]
                                   ELSE calls[d]]
    /\ UNCHANGED <<maxAge, maxEntries, now, pageUrl, doc>>

\* handle, after the await: the evaluation returned a result
QueryResume(c) ==
    /\ calls[c].pc = "evaluating"
    /\ LET call == calls[c]
           result == Result(Script(call.params), doc)
       IN  /\ cache' = StoreAfterEvaluation(cache, maxEntries, now, call, FALSE, result)
           /\ last' = Answer(call, "result", FALSE, Some(result), None, TRUE,
                             call.removed \cup Removed(cache, cache'), cache' # cache)
           /\ calls' = [d \in DOMAIN calls |->
                           IF d = c THEN Idle
                           ELSE IF InFlightOn(calls[d], call) /\ call.params.useCache
                           THEN [calls[d] EXCEPT !.race = "written"]
                           ELSE calls[d]]
    /\ UNCHANGED <<maxAge, maxEntries, now, pageUrl, doc>>

\* handle, after the await: the evaluation threw
QueryEvalFail(c) ==
    /\ calls[c].pc = "evaluating"
    /\ LET call == calls[c]
       IN  /\ cache' = StoreAfterEvaluation(cache, maxEntries, now, call, TRUE, None)
           /\ last' = Answer(call, "error", FALSE, None, Some(EvaluationFailure), TRUE,
                             call.removed \cup Removed(cache, cache'), cache' # cache)
    /\ calls' = [calls EXCEPT ![c] = Idle]
    /\ UNCHANGED <<maxAge, maxEntries, now, pageUrl, doc>>

\* the store after browser_clear_cache
ClearStore(m, t, input) ==
    IF input.olderThanSeconds # None /\ input.olderThanSeconds[1] # 0
    THEN InvalidateOlderThanStore(m, t, input.olderThanSeconds[1])
    ELSE IF StrTruthy(input.url)
    THEN InvalidateStore(m, input.url)
    ELSE InvalidateStore(m, None)

\* whether browser_clear_cache calls invalidate() or invalidate(url) for
\* the entries of the page identity url
Invalidates(input, url) ==
    /\ ~(input.olderThanSeconds # None /\ input.olderThanSeconds[1] # 0)
    /\ StrTruthy(input.url) => input.url = Some(url)

\* browser_clear_cache; a call that awaits its evaluation is marked when
\* the entries of its page identity are invalidated
ClearCache(input) ==
    /\ cache' = ClearStore(cache, now, input)
    /\ last' = [op |-> "clear", input |-> input, removed |-> Removed(cache, cache'),
                size |-> size(cache')]
    /\ calls' = [c \in DOMAIN calls |->
                    IF calls[c].pc = "evaluating" /\ Invalidates(input, calls[c].url)
                    THEN [calls[c] EXCEPT !.overtaken = TRUE]
                    ELSE calls[c]]
    /\ UNCHANGED <<maxAge, maxEntries, now, pageUrl, doc>>

\* browser_cache_status
CacheStatus ==
    /\ last' = [op |-> "status", size |-> size(cache)]
    /\ UNCHANGED cacheVars
    /\ UNCHANGED toolVars

\* the page goes to another URL
Navigate(url) ==
    /\ url # pageUrl
    /\ pageUrl' = url
    /\ UNCHANGED <<doc, calls, last>>
    /\ UNCHANGED cacheVars

\* the document of the page changes
Mutate(d) ==
    /\ d # doc
    /\ doc' = d
    /\ UNCHANGED <<pageUrl, calls, last>>
    /\ UNCHANGED cacheVars

\* the tools called by a client
Next ==
    \/ \E c \in CallIds, input \in Queries : QueryStart(c, input)
    \/ \E c \in CallIds : QueryResume(c)
    \/ \E c \in CallIds : QueryEvalFail(c)
    \/ \E input \in Clears : ClearCache(input)
    \/ CacheStatus
    \/ \E url \in Urls : Navigate(url)
    \/ \E d \in DocVersions : Mutate(d)
    \/ Tick

Spec == Init /\ [][Next]_vars

-----------------------------------------------------------------------------
(* Two clients that query the same page without awaiting each other: the   *)
(* evaluation is the only await of the handler, so that the start of a     *)
(* call and the end of its evaluation are atomic steps that interleave.    *)

RaceIds == { 1, 2 }

\* the inputs of the concurrent calls
RaceQueries ==
    { Query(Some("q"), Some(":"), None, None, None, None),
      Query(Some("q"), Some(":"), None, None, Some(TRUE), Some(TRUE)) }

InitRace ==
    /\ cache = <<>>
    /\ maxAge = MaxAgeSeconds * MsPerSecond
    /\ maxEntries = MaxEntries
    /\ now = 0
    /\ pageUrl = "p"
    /\ doc = 1
    /\ calls = [c \in RaceIds |-> Idle]
    /\ last = [op |-> "new"]

NextRace ==
    \/ \E c \in RaceIds, input \in RaceQueries : QueryStart(c, input)
    \/ \E c \in RaceIds : QueryResume(c)
    \/ \E c \in RaceIds : QueryEvalFail(c)
    \/ \E d \in DocVersions : Mutate(d)
    \/ Tick

SpecRace == InitRace /\ [][NextRace]_vars

-----------------------------------------------------------------------------
(* The scripts that browser_query_dom evaluates in the page.               *)
(*                                                                         *)
(* A document is the sequence of its elements in document order.  An       *)
(* element is [tag, text, attrs, width, height]: its lower-case tag name,  *)
(* its direct text (the text nodes among its child nodes, concatenated),   *)
(* the values of its attributes, and the size of its bounding rectangle.   *)
(* A text is a sequence of characters.  A CSS selector is a type selector: *)
(* it selects the elements of that tag name.  An element of a result       *)
(* is [index, node, tagName] and relevanceScore for a search, node being   *)
(* the position in the document of the element it describes; the text,    *)
(* the position, the attributes and the ref of the element information     *)
(* are left out.                                                           *)

\* the bound of the number of elements a selector matches in the documents
MaxMatches == 3
\* the bound of the length of the documents whose matches are ranked
MaxSearchLen == 2

Max(a, b) == IF a >= b THEN a ELSE b

\* the string of a text, as a template literal holds it
RECURSIVE Str(_)
Str(s) == IF s = <<>> THEN "" ELSE s[1] \o Str(Tail(s))

\* String.prototype.toLowerCase, on the characters of the model
Lower(c) == IF c = "A" THEN "a" ELSE IF c = "B" THEN "b" ELSE c

toLowerCase(s) == [i \in 1..Len(s) |-> Lower(s[i])]

\* String.prototype.includes
includes(s, t) ==
    \E i \in 1..(Len(s) - Len(t) + 1) : SubSeq(s, i, i + Len(t) - 1) = t

\* String.prototype.startsWith
startsWith(s, t) == Len(t) <= Len(s) /\ SubSeq(s, 1, Len(t)) = t

\* \w of a regular expression
IsWordChar(c) == c \in { "a", "b", "A", "B", "_" }

\* \b of a regular expression: between the characters p and p + 1 of s,
\* one is a word character and the other is not, or is beyond the text
AtBoundary(s, p) ==
    (p >= 1 /\ IsWordChar(s[p])) # (p < Len(s) /\ IsWordChar(s[p + 1]))

\* one character of a pattern against one character of a text, with the
\* flag i: a dot is any character but a line terminator, any other
\* character of the model is itself
RegExpChar(pc, c) == IF pc = "." THEN TRUE ELSE Lower(pc) = Lower(c)

\* new RegExp('\\b' + pattern + '\\b', 'i').test(s)
RegExpWordTest(pattern, s) ==
    \E i \in 1..(Len(s) - Len(pattern) + 1) :
       /\ AtBoundary(s, i - 1)
       /\ \A k \in 1..Len(pattern) : RegExpChar(pattern[k], s[i + k - 1])
       /\ AtBoundary(s, i + Len(pattern) - 1)

\* document.querySelectorAll(selector): the positions of the elements
\* selected, in document order
querySelectorAll(document, selector) ==
    SelectSeq([i \in 1..Len(document) |-> i], LAMBDA i : document[i].tag = selector)

\* the loop of the selector script, from i to the bound
RECURSIVE SelectorLoop(_, _, _, _, _)
SelectorLoop(document, elements, i, bound, results) ==
    IF i < bound
    THEN SelectorLoop(document, elements, i + 1, bound,
                      Append(results, [index |-> i, node |-> elements[i + 1],
                                       tagName |-> document[elements[i + 1]].tag]))
    ELSE results

\* the selector script with a loop that ends one element early
SelectorScriptSkipsLast(document, selector, offset, limit) ==
    LET elements == querySelectorAll(document, selector)
        totalCount == Len(elements)
        results == SelectorLoop(document, elements, offset,
                                Min(Len(elements), offset + limit - 1), <<>>)
    IN  [totalCount |-> totalCount, offset |-> offset, limit |-> limit,
         returnedCount |-> Len(results), hasMore |-> offset + limit < totalCount,
         elements |-> results]

\* the script of a query by selector, evaluated in a document
SelectorScript(document, selector, offset, limit) ==
    LET elements == querySelectorAll(document, selector)
        totalCount == Len(elements)
        results == SelectorLoop(document, elements, offset,
                                Min(Len(elements), offset + limit), <<>>)
    IN  [totalCount |-> totalCount, offset |-> offset, limit |-> limit,
         returnedCount |-> Len(results), hasMore |-> offset + limit < totalCount,
         elements |-> results]

SemanticTags == { "h1", "h2", "h3", "h4", "h5", "h6", "button", "a", "label" }

SkippedTags == { "script", "style" }

\* whether the search script takes the element for a match
IsMatch(el, searchText) ==
    /\ el.tag \notin SkippedTags
    /\ \/ includes(toLowerCase(el.text), searchText)
       \/ \E j \in 1..Len(el.attrs) : includes(toLowerCase(el.attrs[j]), searchText)

\* what the direct text of a match adds to its relevance score
TextScore(el, searchText) ==
    LET lowerText == toLowerCase(el.text)
    IN  IF lowerText = searchText THEN 100
        ELSE IF startsWith(lowerText, searchText) THEN 50
        ELSE IF RegExpWordTest(searchText, el.text) THEN 30
        ELSE IF includes(lowerText, searchText) THEN 10
        ELSE 0

\* a score in which the bonus of a visible element is 50
ScoreVisibleFirst(el, searchText) ==
    TextScore(el, searchText)
        + (IF el.width > 0 /\ el.height > 0 THEN 50 ELSE 0)
        + (IF el.tag \in SemanticTags THEN 10 ELSE 0)

\* the relevance score of a match
Score(el, searchText) ==
    TextScore(el, searchText)
        + (IF el.width > 0 /\ el.height > 0 THEN 5 ELSE 0)
        + (IF el.tag \in SemanticTags THEN 10 ELSE 0)

\* the matches of the search script, in document order
Matches(document, searchText) ==
    LET hits == SelectSeq([i \in 1..Len(document) |-> i],
                          LAMBDA i : IsMatch(document[i], searchText))
    IN  [k \in 1..Len(hits) |->
            [node |-> hits[k], score |-> Score(document[hits[k]], searchText)]]

\* x put before the matches of its score: a sort that is not stable
InsertByScoreBeforeTies(sorted, x) ==
    LET before == SelectSeq(sorted, LAMBDA y : y.score > x.score)
        after == SelectSeq(sorted, LAMBDA y : y.score <= x.score)
    IN  before \o <<x>> \o after

\* x put into a sequence sorted by descending score, behind the matches
\* of its score
InsertByScore(sorted, x) ==
    LET before == SelectSeq(sorted, LAMBDA y : y.score >= x.score)
        after == SelectSeq(sorted, LAMBDA y : y.score < x.score)
    IN  before \o <<x>> \o after

\* matches.sort((a, b) => b.score - a.score): Array.prototype.sort is stable
RECURSIVE SortByScore(_)
SortByScore(matches) ==
    IF matches = <<>> THEN <<>>
    ELSE InsertByScore(SortByScore(SubSeq(matches, 1, Len(matches) - 1)),
                       matches[Len(matches)])

\* Array.prototype.slice(from, to), for indices that are not negative
slice(xs, from, to) == SubSeq(xs, from + 1, Min(to, Len(xs)))

\* the script of a query by search text, evaluated in a document
SearchScript(document, text, offset, limit) ==
    LET searchText == toLowerCase(text)
        matches == SortByScore(Matches(document, searchText))
        totalCount == Len(matches)
        paginatedMatches == slice(matches, offset, offset + limit)
        results == [idx \in 1..Len(paginatedMatches) |->
                      [index |-> offset + idx - 1,
                       node |-> paginatedMatches[idx].node,
                       tagName |-> document[paginatedMatches[idx].node].tag,
                       relevanceScore |-> paginatedMatches[idx].score]]
    IN  [searchText |-> Str(text), totalCount |-> totalCount, offset |-> offset,
         limit |-> limit, returnedCount |-> Len(results),
         hasMore |-> offset + limit < totalCount, elements |-> results]

Element(tag, text, attrs, width, height) ==
    [tag |-> tag, text |-> text, attrs |-> attrs, width |-> width, height |-> height]

\* a document in which the selector li selects n of 2 * n elements
ListDocument(n) ==
    [i \in 1..(2 * n) |->
        IF i % 2 = 1 THEN Element("p", <<"a">>, <<>>, 1, 1)
        ELSE Element("li", <<"b">>, <<>>, 1, 1)]

\* the documents of the queries by selector; the one of 25 elements li
\* is the one of the pagination example
ListDocuments == { ListDocument(n) : n \in (0..MaxMatches) \cup { 25 } }

\* the offsets and limits given to the queries by selector
Offsets == { None, Some(0), Some(1), Some(2), Some(20), Some(25) }

Limits == { None, Some(0), Some(1), Some(2), Some(10), Some(100), Some(101) }

\* direct texts: none, the text a in capitals, texts that start with a,
\* hold the word a, hold the letter a, hold no a, and hold a dot
Texts ==
    { <<>>, <<"A">>, <<"a", "b">>, <<"b", " ", "a">>, <<"b", "a">>, <<"b">>,
      <<"a", ".">> }

\* the attribute values of an element
AttributeLists == { <<>>, << <<"b">>, <<"A", ".">> >> }

\* the elements of the documents that are searched
Elements ==
    { Element(tag, text, attrs, rect[1], rect[2]) :
        tag \in { "div", "button", "script" }, text \in Texts,
        attrs \in AttributeLists, rect \in { <<0, 0>>, <<1, 0>>, <<1, 1>> } }

\* the elements of the documents whose matches are ranked
RankedElements ==
    { Element("div", <<"A">>, <<>>, 0, 0),
      Element("div", <<"a", "b">>, <<>>, 1, 1),
      Element("button", <<"b", "a">>, <<>>, 1, 1),
      Element("div", <<"b", "a">>, <<>>, 1, 1),
      Element("a", <<"b">>, << <<"a">> >>, 1, 1),
      Element("div", <<"b">>, <<>>, 1, 1) }

RECURSIVE DocumentsOf(_, _)
DocumentsOf(els, n) ==
    IF n = 0 THEN { <<>> }
    ELSE LET shorter == DocumentsOf(els, n - 1)
         IN  shorter \cup { Append(d, e) : d \in shorter, e \in els }

\* the documents of the queries by search text
SearchDocuments ==
    { <<e>> : e \in Elements } \cup DocumentsOf(RankedElements, MaxSearchLen)

SearchTexts == { <<"a">>, <<"A">>, <<".">> }

\* the offsets and limits given to the queries by search text
SearchPages == { <<None, None>>, <<Some(1), Some(1)>>, <<Some(0), Some(2)>> }

\* the inputs of an evaluation: a document, and the selector, search
\* text, limit and offset of a query
ScriptInputs ==
    { [op |-> "input", document |-> document, selector |-> Some("li"), text |-> None,
       limit |-> lim, offset |-> off] :
         document \in ListDocuments, lim \in Limits, off \in Offsets }
    \cup
    { [op |-> "input", document |-> document, selector |-> None, text |-> Some(text),
       limit |-> page[2], offset |-> page[1]] :
         document \in SearchDocuments, text \in SearchTexts, page \in SearchPages }

\* a query waits for its evaluation in a document
InitScript ==
    /\ cache = <<>>
    /\ maxAge = MaxAgeSeconds * MsPerSecond
    /\ maxEntries = MaxEntries
    /\ now = 0
    /\ pageUrl = "p"
    /\ doc = 1
    /\ calls = [c \in CallIds |-> Idle]
    /\ last \in ScriptInputs

\* tab.page.evaluate(javascript) for the script that the handler builds
\* from its input, in a document: the script by selector when a selector
\* is given, the script by search text otherwise
Evaluate ==
    /\ last.op = "input"
    /\ LET input == Query(last.selector,
                          IF last.text = None THEN None ELSE Some(Str(last.text[1])),
                          last.limit, last.offset, None, None)
           params == Parsed(input)
           limit == EffectiveLimit(params)
           offset == EffectiveOffset(params)
       IN  /\ ScriptKind(params) # "none"
           /\ last' = [op |-> "evaluate", document |-> last.document, input |-> input,
                       text |-> last.text, kind |-> ScriptKind(params),
                       key |-> generateKey(pageUrl, QueryShape(params)),
                       result |-> IF ScriptKind(params) = "selector"
                                  THEN SelectorScript(last.document, params.selector[1],
                                                      offset, limit)
                                  ELSE SearchScript(last.document, last.text[1],
                                                    offset, limit)]
    /\ UNCHANGED cacheVars
    /\ UNCHANGED toolVars

NextScript == Evaluate

SpecScript == InitScript /\ [][NextScript]_vars

-----------------------------------------------------------------------------
(* Properties of the cache used directly (SpecCache) *)

\* a step of SpecCache is the call that last' records, unless it is a Tick,
\* which is the only step that moves the clock
IsCall(op) == last'.op = op /\ now' = now

\* C1: with a positive maxEntries the store never holds more than
\* maxEntries entries, whatever get, set, invalidate and
\* invalidateOlderThan calls were made.
C1_SizeBounded == maxEntries > 0 => size(cache) <= maxEntries

\* a set on a full store has just evicted an entry and the store is full
C1_Witness ==
    /\ last.op = "set"
    /\ last.removed # {}
    /\ size(cache) = maxEntries

\* entry i has the smallest timestamp and is the first that has it
IsFirstOldest(m, i) ==
    /\ \A j \in 1..Len(m) : m[i].timestamp <= m[j].timestamp
    /\ \A j \in 1..(i - 1) : m[j].timestamp > m[i].timestamp

\* m without its entry i, the other entries in their order
WithoutIndex(m, i) == [j \in 1..(Len(m) - 1) |-> IF j < i THEN m[j] ELSE m[j + 1]]

\* C2: a set of a key that is not present, on a store that holds
\* maxEntries entries, removes exactly one entry, the one with the smallest
\* timestamp and, among several with that timestamp, the first in
\* iteration order; the other entries stay and the new entry is added.
C2_EvictsFirstOldest ==
    [][( /\ IsCall("set")
         /\ ~MapHas(cache, generateKey(last'.url, last'.params))
         /\ Len(cache) = maxEntries )
       => \E i \in 1..Len(cache) :
             /\ IsFirstOldest(cache, i)
             /\ Removed(cache, cache') = { cache[i] }
             /\ Len(cache') = Len(cache)
             /\ \A j \in 1..(Len(cache) - 1) : cache'[j] = WithoutIndex(cache, i)[j]
             /\ cache'[Len(cache')].key = generateKey(last'.url, last'.params)]_vars

\* a set has evicted an entry whose timestamp another, kept, entry shares
C2_Witness ==
    /\ last.op = "set"
    /\ \E e \in last.removed : \E f \in Entries(cache) :
          /\ f.timestamp = e.timestamp
          /\ f.key # generateKey(last.url, last.params)

\* C3: a get of an entry stored at T returns its payload and leaves the
\* store as it is at T + maxAge - 1, and returns absent and removes that
\* entry and no other at T + maxAge + 1; the passage of time alone removes
\* nothing.
C3_LazyExpiration ==
    [][/\ ( IsCall("get") /\ MapHas(cache, generateKey(last'.url, last'.params)) ) =>
            LET key == generateKey(last'.url, last'.params)
                e == MapGet(cache, key)
            IN  /\ now = e.timestamp + maxAge - 1 =>
                      last'.ret = Some(e.data) /\ cache' = cache
                /\ now = e.timestamp + maxAge + 1 =>
                      /\ last'.ret = None
                      /\ ~MapHas(cache', key)
                      /\ Removed(cache, cache') = { e }
                      /\ Entries(cache') = Entries(cache) \ { e }
       /\ now' # now => cache' = cache]_vars

\* a get at T + maxAge + 1 has returned absent and removed the entry
C3_Witness ==
    /\ last.op = "get"
    /\ last.ret = None
    /\ \E e \in last.removed : now = e.timestamp + maxAge + 1

\* C4: a get that directly follows a set with the same page identity and
\* shape, no later than maxAge after it, returns the payload the set stored.
C4_GetAfterSet ==
    [][( /\ last.op = "set"
         /\ IsCall("get")
         /\ last'.url = last.url
         /\ last'.params = last.params
         /\ now - last.at <= maxAge )
       => last'.ret = Some(last.data)]_vars

\* a get with an omitted offset and limit has answered directly after the
\* set of its key
C4_Witness ==
    /\ last.op = "get"
    /\ last.afterSet = Some(generateKey(last.url, last.params))
    /\ last.ret # None
    /\ last.params.offset = None

\* C5: invalidate(url) with a page identity removes every entry stored for
\* url and leaves every entry stored for another page identity in the
\* store with its payload and timestamp.
C5_InvalidateUrl ==
    [][( IsCall("invalidate") /\ last'.url # None ) =>
          /\ \A e \in Entries(cache) :
                /\ Some(e.url) = last'.url => ~MapHas(cache', e.key)
                /\ Some(e.url) # last'.url => e \in Entries(cache')
          /\ Entries(cache') \subseteq Entries(cache)]_vars

\* an invalidate(url) has removed an entry and kept one of another page
C5_Witness ==
    /\ last.op = "invalidate"
    /\ last.url # None
    /\ last.removed # {}
    /\ \E e \in Entries(cache) : Some(e.url) # last.url

\* C6: invalidate() leaves an empty store, and an invalidate() that
\* directly follows one changes nothing.
C6_InvalidateAll ==
    [][( IsCall("invalidate") /\ last'.url = None ) =>
          /\ size(cache') = 0
          /\ (last.op = "invalidate" /\ last.url = None) => cache' = cache]_vars

\* a second invalidate() has run directly after one that emptied the store
C6_Witness ==
    /\ last.op = "invalidate"
    /\ last.url = None
    /\ last.afterClear
    /\ size(cache) = 0

\* C7: invalidateOlderThan(ageSeconds) removes the entries older than
\* ageSeconds * 1000 ms and no other, whatever maxAge is.
C7_InvalidateOlderThan ==
    [][IsCall("invalidateOlderThan") =>
          /\ \A e \in Entries(cache) :
                /\ now - e.timestamp > last'.ageSeconds * 1000 => ~MapHas(cache', e.key)
                /\ now - e.timestamp <= last'.ageSeconds * 1000 => e \in Entries(cache')
          /\ Entries(cache') \subseteq Entries(cache)]_vars

\* an invalidateOlderThan has removed an entry that maxAge still accepts and
\* has kept a younger one
C7_Witness ==
    /\ last.op = "invalidateOlderThan"
    /\ \E e \in last.removed : now - e.timestamp <= maxAge
    /\ cache # <<>>

\* C19: a set removes an entry of another key only on a store that holds
\* maxEntries entries and not the key written: on a store below capacity
\* it removes nothing, entries older than maxAge included, and on a key
\* that is present, at capacity too, it removes nothing, keeps the size
\* and puts the new payload and timestamp under the key.
C19_SetEvictsOnlyWhenFull ==
    [][IsCall("set") =>
          LET key == generateKey(last'.url, last'.params) IN
          /\ Removed(cache, cache') # {} =>
                Len(cache) >= maxEntries /\ ~MapHas(cache, key)
          /\ (Len(cache) < maxEntries \/ MapHas(cache, key)) =>
                \A e \in Entries(cache) : e.key # key => e \in Entries(cache')
          /\ MapHas(cache, key) =>
                /\ Len(cache') = Len(cache)
                /\ MapKeys(cache') = MapKeys(cache)
                /\ MapGet(cache', key).data = last'.data
                /\ MapGet(cache', key).timestamp = now]_vars

\* a set has written a key that was present in a full store, and an entry of
\* another key, older than maxAge, is still there
C19_Witness ==
    /\ last.op = "set"
    /\ last.had
    /\ last.removed = {}
    /\ size(cache) = maxEntries
    /\ last.at = now
    /\ \E e \in Entries(cache) :
          /\ e.key # generateKey(last.url, last.params)
          /\ now - e.timestamp > maxAge

-----------------------------------------------------------------------------
(* Properties of the tools (Spec) *)

\* call c starts in this step and awaits its evaluation
Dispatches(c) == calls[c].pc = "idle" /\ calls'[c].pc = "evaluating"

\* the evaluation of call c ends in this step and the call answers
Completes(c) == calls[c].pc = "evaluating" /\ calls'[c].pc = "idle"

\* C8: of three successive queries of one page URL and shape, the first,
\* with useCache and no entry under its key, evaluates the document and
\* answers fromCache=false; the second, before the expiration, evaluates
\* nothing and answers fromCache=true with the data of the first; the
\* third, with forceRefresh, evaluates again, answers fromCache=false and
\* leaves under the key one entry with its data and the time of its write.
C8_ThreeQueries ==
    [][/\ (last'.op = "query" /\ last'.outcome = "result") =>
            /\ last'.stage = 1 => last'.evaluated /\ ~last'.fromCache
            /\ last'.stage = 2 =>
                  ~last'.evaluated /\ last'.fromCache /\ last'.data = last'.base
            /\ last'.stage = 3 => last'.evaluated /\ ~last'.fromCache
       /\ \A c \in CallIds :
            /\ Dispatches(c) => calls'[c].stage # 2
            /\ (Completes(c) /\ calls[c].stage = 3 /\ last'.outcome = "result") =>
                  LET key == generateKey(calls[c].url, calls[c].shape) IN
                  /\ MapHas(cache', key)
                  /\ MapGet(cache', key).timestamp = now
                  /\ Some(MapGet(cache', key).data) = last'.data
                  /\ Len(SelectSeq(cache', LAMBDA e : e.key = key)) = 1]_vars

\* the third query has answered, after a second one that was served from
\* the cache, and has written its result at a later time than the start
C8_Witness ==
    /\ last.op = "query"
    /\ last.outcome = "result"
    /\ last.stage = 3
    /\ last.params.forceRefresh
    /\ last.wrote
    /\ now > 0
    /\ \E e \in Entries(cache) : Some(e.data) = last.data /\ e.timestamp = now

\* C9, strict form: after a query whose evaluation threw, the store is what it
\* was before the query.
C9_CacheUntouched ==
    (last.op = "query" /\ last.error = Some(EvaluationFailure)) =>
        last.removed = {} /\ ~last.wrote

\* C9: a query whose evaluation throws answers with the error and
\* writes nothing: its start removes at most the expired entry under its
\* own key, by the cache check, and the throw leaves the store as it is.
C9_FailedQueryWritesNothing ==
    [][\A c \in CallIds :
          /\ Dispatches(c) =>
                /\ Entries(cache') \subseteq Entries(cache)
                /\ \A e \in Entries(cache) \ Entries(cache') :
                      /\ e.key = generateKey(calls'[c].url, calls'[c].shape)
                      /\ now - e.timestamp > maxAge
                      /\ calls'[c].params.useCache /\ ~calls'[c].params.forceRefresh
          /\ (Completes(c) /\ last'.outcome = "error") =>
                /\ cache' = cache
                /\ last'.error = Some(EvaluationFailure)
                /\ last'.data = None]_vars

\* the evaluation of a query threw after its cache check had removed the
\* expired entry under its key
C9_Witness ==
    /\ last.op = "query"
    /\ last.error = Some(EvaluationFailure)
    /\ last.removed # {}
    /\ ~last.wrote

\* C10: a query with neither selector nor searchText answers with the
\* InvalidArgument error, returns no result, evaluates nothing and writes
\* nothing.
C10_NeitherAlwaysFails ==
    /\ (/\ last.op = "query"
        /\ last.params.selector = None
        /\ last.params.searchText = None) =>
            /\ last.outcome = "error"
            /\ last.error = Some(InvalidArgument)
            /\ last.data = None
            /\ ~last.fromCache
            /\ ~last.evaluated
            /\ ~last.wrote
    /\ \A c \in CallIds :
          calls[c].pc = "evaluating" =>
              ~(calls[c].params.selector = None /\ calls[c].params.searchText = None)

\* a query is answered from the cache in this step
Serves ==
    /\ last'.op = "query"
    /\ last'.fromCache
    /\ now' = now
    /\ UNCHANGED <<pageUrl, doc, calls>>

\* C12: whatever queries, clears and clock steps came before, a query
\* answered with fromCache=true gets the payload of an entry of the store
\* that was written no more than maxAge before the answer.
C12_FreshWhenServed ==
    [][Serves =>
          \E e \in Entries(cache) :
             /\ e.key = generateKey(last'.url, QueryShape(last'.params))
             /\ Some(e.data) = last'.data
             /\ e.timestamp <= now
             /\ now - e.timestamp <= maxAge]_vars

\* a query has been answered from the cache exactly maxAge after the
\* write of the entry
C12_Witness ==
    /\ last.op = "query"
    /\ last.fromCache
    /\ last.age = Some(maxAge)

\* C16: a query with useCache=false, whatever forceRefresh is and whether
\* or not the store holds an entry under its key, is not answered from the
\* cache: it evaluates the document, answers fromCache=false, and neither
\* its start nor its end changes the store.
C16_UseCacheFalse ==
    [][/\ Serves => last'.params.useCache
       /\ (last'.op = "query" /\ last' # last /\ ~last'.params.useCache) =>
             /\ last'.evaluated
             /\ ~last'.fromCache
             /\ last'.removed = {}
             /\ ~last'.wrote
       /\ \A c \in DOMAIN calls :
            /\ (Dispatches(c) /\ ~calls'[c].params.useCache) => cache' = cache
            /\ (Completes(c) /\ ~calls[c].params.useCache) =>
                  /\ cache' = cache
                  /\ last'.evaluated
                  /\ ~last'.fromCache]_vars

\* a query with useCache=false and forceRefresh=true has evaluated the
\* document and got another result than the one that the store holds,
\* unexpired, under its key
C16_Witness ==
    /\ last.op = "query"
    /\ ~last.params.useCache
    /\ last.params.forceRefresh
    /\ last.outcome = "result"
    /\ last.evaluated
    /\ \E e \in Entries(cache) :
          /\ e.key = generateKey(last.url, QueryShape(last.params))
          /\ Some(e.data) # last.data
          /\ now - e.timestamp <= maxAge

\* no call starts or ends in this step, and the page stays as it is
Waits ==
    /\ UNCHANGED <<pageUrl, doc>>
    /\ \A c \in DOMAIN calls : calls'[c].pc = calls[c].pc

\* C18: browser_clear_cache removes the entries older than
\* olderThanSeconds and no other when that parameter is given; otherwise
\* the entries stored for url and no other when url is given; otherwise
\* every entry.  browser_cache_status reports the number of entries and
\* leaves the store as it is.
C18_ClearAndStatus ==
    [][/\ (last'.op = "clear" /\ now' = now /\ Waits) =>
             LET input == last'.input IN
             /\ Entries(cache') \subseteq Entries(cache)
             /\ IF input.olderThanSeconds # None
                THEN \A e \in Entries(cache) :
                        IF now - e.timestamp > input.olderThanSeconds[1] * 1000
                        THEN ~MapHas(cache', e.key)
                        ELSE e \in Entries(cache')
                ELSE IF input.url # None
                THEN \A e \in Entries(cache) :
                        IF Some(e.url) = input.url
                        THEN ~MapHas(cache', e.key)
                        ELSE e \in Entries(cache')
                ELSE cache' = <<>>
       /\ (last'.op = "status" /\ now' = now /\ Waits) =>
             cache' = cache /\ last'.size = size(cache)]_vars

\* whether entry e was stored for the page identity and the selector,
\* search text, offset and limit of the call r, an absent selector or
\* search text taken for the empty string
SameFingerprint(e, r) ==
    /\ e.url = r.url
    /\ StrOr(e.selector, "") = StrOr(r.params.selector, "")
    /\ StrOr(e.searchText, "") = StrOr(r.params.searchText, "")
    /\ e.data.offset = EffectiveOffset(r.params)
    /\ e.data.limit = EffectiveLimit(r.params)

\* C20: requests that differ in page identity, selector, search text,
\* offset or limit have different keys: the entry that a query is served
\* from the cache, and the entry that the write of a query replaces, were
\* stored for the page identity, selector, search text, offset and limit
\* of that query.
C20_KeyInjective ==
    [][/\ Serves =>
             SameFingerprint(
                 MapGet(cache, generateKey(last'.url, QueryShape(last'.params))), last')
       /\ \A c \in DOMAIN calls :
            (Completes(c) /\ last'.wrote /\
                 MapHas(cache, generateKey(calls[c].url, calls[c].shape))) =>
                SameFingerprint(
                    MapGet(cache, generateKey(calls[c].url, calls[c].shape)), last')]_vars

\* C21: no query is served from the cache a result whose evaluation had
\* started before an invalidate() or an invalidate(url) of its page
\* returned; stated for the answer that follows the write of that result.
C21_InvalidationHolds ==
    [][~( /\ Serves
          /\ last.op = "query"
          /\ last.wrote
          /\ last.overtaken
          /\ generateKey(last'.url, QueryShape(last'.params))
                = generateKey(last.url, QueryShape(last.params))
          /\ last'.data = last.data )]_vars

\* C22: the page identity under which a query stores its result is the
\* URL of the page when the evaluation gives that result, also when the
\* page went to another URL after the start of the query: every entry
\* written is stored under the URL at which its result was read.
C22_StoredUnderEvaluatedUrl ==
    [][\A c \in DOMAIN calls :
          (Completes(c) /\ last'.outcome = "result" /\ calls[c].params.useCache) =>
              LET key == generateKey(calls[c].url, calls[c].shape) IN
              /\ MapHas(cache', key)
              /\ Some(MapGet(cache', key).data) = last'.data
              /\ MapGet(cache', key).url = pageUrl]_vars

-----------------------------------------------------------------------------
(* Properties of concurrent queries (SpecRace) *)

\* the entries of m stored under key k
Under(m, k) == SelectSeq(m, LAMBDA e : e.key = k)

\* C11: two queries of one key that are both in flight, the later one
\* started while the earlier awaited its evaluation, have both missed the
\* cache and both evaluate; each of them that gets a result writes it,
\* and after each write, so after the last one, the store holds exactly
\* one entry under the key, with the payload and the time of that write.
C11_LastWriteWins ==
    [][/\ (last'.op = "query" /\ last'.race # "none") =>
             last'.evaluated /\ ~last'.fromCache
       /\ \A c \in DOMAIN calls :
            /\ (Dispatches(c) /\ calls'[c].race = "started") =>
                  \E d \in DOMAIN calls \ { c } :
                     /\ InFlightOn(calls'[d], calls'[c])
                     /\ calls'[d].race # "none"
                     /\ cache' = cache \/ Len(cache') < Len(cache)
            /\ (Completes(c) /\ calls[c].race # "none" /\ last'.outcome = "result") =>
                  LET key == generateKey(calls[c].url, calls[c].shape) IN
                  /\ Len(Under(cache', key)) = 1
                  /\ Some(MapGet(cache', key).data) = last'.data
                  /\ MapGet(cache', key).timestamp = now']_vars

\* the second of two concurrent queries of one key to finish has written
\* its result, read from the changed document, after the write of the first
C11_Witness ==
    /\ last.op = "query"
    /\ last.race = "written"
    /\ last.outcome = "result"
    /\ \A c \in DOMAIN calls : calls[c].pc = "idle"
    /\ LET key == generateKey(last.url, QueryShape(last.params)) IN
        /\ Len(Under(cache, key)) = 1
        /\ Some(MapGet(cache, key).data) = last.data
        /\ MapGet(cache, key).timestamp = now
        /\ now > 0
        /\ last.data[1].doc # 1

-----------------------------------------------------------------------------
(* Properties of the scripts (SpecScript) *)

\* the number of elements of the document that the selector selects
MatchCount(document, selector) ==
    Cardinality({ i \in 1..Len(document) : document[i].tag = selector })

\* the position in the document of the n-th element that the selector
\* selects, in document order
NthMatch(document, selector, n) ==
    CHOOSE p \in 1..Len(document) :
        /\ document[p].tag = selector
        /\ MatchCount(SubSeq(document, 1, p), selector) = n

\* C13: for a document with N elements selected, an offset o >= 0 and an
\* effective limit l >= 1, the result of the selector script has
\* totalCount = N, the selected elements of positions o .. min(N, o+l)-1
\* in document order, each with its position for index, returnedCount =
\* max(0, min(N, o+l) - o) and hasMore = (o + l < N); N = 25, l = 10,
\* o = 20 gives returnedCount = 5, hasMore = false, totalCount = 25.
C13_SelectorPage ==
    (last.op = "evaluate" /\ last.kind = "selector"
        /\ last.result.offset >= 0 /\ last.result.limit >= 1) =>
        LET r == last.result
            o == r.offset
            l == r.limit
            N == MatchCount(last.document, last.input.selector[1])
        IN  /\ r.totalCount = N
            /\ r.returnedCount = Max(0, Min(N, o + l) - o)
            /\ Len(r.elements) = r.returnedCount
            /\ \A k \in 1..Len(r.elements) :
                  /\ r.elements[k].index = o + k - 1
                  /\ r.elements[k].node =
                        NthMatch(last.document, last.input.selector[1], o + k)
            /\ r.hasMore = (o + l < N)
            /\ (N = 25 /\ l = 10 /\ o = 20) =>
                  r.returnedCount = 5 /\ ~r.hasMore /\ r.totalCount = 25

\* the query of 25 elements with limit 10 and offset 20 has its result
C13_Witness ==
    /\ last.op = "evaluate"
    /\ last.kind = "selector"
    /\ last.input.limit = Some(10)
    /\ last.input.offset = Some(20)
    /\ last.result.totalCount = 25
    /\ last.result.returnedCount = 5
    /\ last.result.elements[5].index = 24

\* the positions of the elements of the document that match the search text
MatchNodes(document, text) ==
    { i \in 1..Len(document) : IsMatch(document[i], toLowerCase(text)) }

\* the number of matches ranked before the match at position n: those of a
\* higher score, and those of the same score that come first in the document
RankOf(document, text, n) ==
    LET score(i) == Score(document[i], toLowerCase(text))
    IN  Cardinality({ i \in MatchNodes(document, text) :
                        \/ score(i) > score(n)
                        \/ score(i) = score(n) /\ i < n })

\* C14: the search script ranks the matches by descending score, matches
\* of one score in document order, and returns the matches of ranks
\* offset .. offset + limit - 1 of that order; a match whose direct text
\* equals the search text, case apart, is ranked before a match whose
\* direct text holds it without being equal to it, wherever they are in
\* the document.
C14_RankedByScore ==
    (last.op = "evaluate" /\ last.kind = "search") =>
        LET r == last.result
            document == last.document
            text == last.text[1]
            nodes == MatchNodes(document, text)
            equal(i) == toLowerCase(document[i].text) = toLowerCase(text)
            holds(i) == includes(toLowerCase(document[i].text), toLowerCase(text))
        IN  /\ r.totalCount = Cardinality(nodes)
            /\ Len(r.elements) =
                  Max(0, Min(Cardinality(nodes), r.offset + r.limit) - r.offset)
            /\ \A k \in 1..Len(r.elements) :
                  /\ r.elements[k].node \in nodes
                  /\ RankOf(document, text, r.elements[k].node) = r.offset + k - 1
                  /\ r.elements[k].index = r.offset + k - 1
                  /\ r.elements[k].relevanceScore =
                        Score(document[r.elements[k].node], toLowerCase(text))
            /\ \A i, j \in nodes :
                  (equal(i) /\ holds(j) /\ ~equal(j)) =>
                      RankOf(document, text, i) < RankOf(document, text, j)

\* the second element of a document is returned before the first: its
\* direct text is the search text in capitals, the first one holds it
C14_Witness ==
    /\ last.op = "evaluate"
    /\ last.kind = "search"
    /\ Len(last.result.elements) = 2
    /\ last.result.elements[1].node = 2
    /\ last.result.elements[2].node = 1
    /\ last.document[2].text # last.text[1]
    /\ toLowerCase(last.document[2].text) = toLowerCase(last.text[1])
    /\ includes(toLowerCase(last.document[1].text), toLowerCase(last.text[1]))

\* the positions at which s holds t, case apart
Occurrences(s, t) ==
    { i \in 1..(Len(s) - Len(t) + 1) :
        \A k \in 1..Len(t) : Lower(s[i + k - 1]) = Lower(t[k]) }

\* the contribution of the direct text s to the score of a match of t
TextContribution(s, t) ==
    IF Len(s) = Len(t) /\ 1 \in Occurrences(s, t) THEN 100
    ELSE IF 1 \in Occurrences(s, t) THEN 50
    ELSE IF \E i \in Occurrences(s, t) :
               AtBoundary(s, i - 1) /\ AtBoundary(s, i + Len(t) - 1) THEN 30
    ELSE IF Occurrences(s, t) # {} THEN 10
    ELSE 0

\* C15: an element other than script and style is a match iff its direct
\* text or one of its attribute values holds the search text, case apart;
\* the score of a match is 100 when its direct text equals the search
\* text, else 50 when it starts with it, else 30 when it holds it between
\* word boundaries, else 10 when it holds it, else 0, plus 5 for a
\* non-zero width and height, plus 10 for a tag among h1..h6, button, a,
\* label.
C15_MatchAndScore ==
    (last.op = "evaluate" /\ last.kind = "search") =>
        LET r == last.result
            document == last.document
            text == last.text[1]
            matched == { i \in 1..Len(document) :
                           /\ document[i].tag \notin { "script", "style" }
                           /\ \/ Occurrences(document[i].text, text) # {}
                              \/ \E j \in 1..Len(document[i].attrs) :
                                    Occurrences(document[i].attrs[j], text) # {} }
            score(i) ==
                TextContribution(document[i].text, text)
                + (IF document[i].width # 0 /\ document[i].height # 0 THEN 5 ELSE 0)
                + (IF document[i].tag \in { "h1", "h2", "h3", "h4", "h5", "h6",
                                            "button", "a", "label" } THEN 10 ELSE 0)
        IN  /\ r.totalCount = Cardinality(matched)
            /\ \A k \in 1..Len(r.elements) :
                  /\ r.elements[k].node \in matched
                  /\ r.elements[k].relevanceScore = score(r.elements[k].node)

\* C17: the effective limit is min(limit, 100), and 20 when limit is
\* omitted; the effective offset is offset, and 0 when offset is omitted;
\* the limit reported and the number of elements returned are at most
\* 100; the cache key is built from the effective offset and limit.
C17_EffectiveLimit ==
    last.op = "evaluate" =>
        LET r == last.result
            limit == IF last.input.limit = None THEN 20
                     ELSE Min(last.input.limit[1], 100)
            offset == IF last.input.offset = None THEN 0 ELSE last.input.offset[1]
        IN  /\ r.limit = limit
            /\ r.offset = offset
            /\ r.limit <= 100
            /\ r.returnedCount <= 100
            /\ last.key = pageUrl \o ":" \o StrOr(last.input.selector, "")
                              \o ":" \o StrOr(last.input.searchText, "")
                              \o ":" \o ToString(offset) \o ":" \o ToString(limit)

\* C23, for the kinds of match: a match of a higher kind, of exact
\* equality > starts-with > whole-word > substring > attribute-only, is
\* ranked before a match of a lower kind, whatever their bonuses are.
C23_KindDominates ==
    (last.op = "evaluate" /\ last.kind = "search") =>
        LET document == last.document
            text == last.text[1]
            kind(i) == TextContribution(document[i].text, text)
        IN  \A i, j \in MatchNodes(document, text) :
                kind(i) > kind(j) =>
                    RankOf(document, text, i) < RankOf(document, text, j)

\* C23: a match whose score holds a text contribution of 100, 50 or 30 is
\* ranked before every match whose score holds a lower text
\* contribution, whatever their bonuses are; a match with the text
\* contribution 10 is ranked before a match with the text contribution 0
\* only when its bonuses are less than 10 below those of the other, or
\* 10 below and it comes first in the document.
C23_TextScoreDominates ==
    (last.op = "evaluate" /\ last.kind = "search") =>
        LET document == last.document
            text == last.text[1]
            part(i) == TextScore(document[i], toLowerCase(text))
            bonus(i) ==
                (IF document[i].width > 0 /\ document[i].height > 0 THEN 5 ELSE 0)
                + (IF document[i].tag \in { "h1", "h2", "h3", "h4", "h5", "h6",
                                            "button", "a", "label" } THEN 10 ELSE 0)
            before(i, j) == RankOf(document, text, i) < RankOf(document, text, j)
        IN  \A i, j \in MatchNodes(document, text) :
                /\ (part(i) > part(j) /\ part(i) >= 30) => before(i, j)
                /\ (part(i) = 10 /\ part(j) = 0) =>
                      (before(i, j) <=>
                          \/ bonus(j) - bonus(i) < 10
                          \/ bonus(j) - bonus(i) = 10 /\ i < j)

\* of two matches, the second of the document has no bonus and a text
\* contribution of at least 30, the first has a lower text contribution
\* and both bonuses, and the second is returned first
C23_Witness ==
    /\ last.op = "evaluate"
    /\ last.kind = "search"
    /\ Len(last.result.elements) = 2
    /\ last.result.elements[1].node = 2
    /\ last.result.elements[2].node = 1
    /\ LET first == last.document[1]
           second == last.document[2]
           searchText == toLowerCase(last.text[1])
       IN  /\ TextScore(second, searchText) >= 30
           /\ TextScore(first, searchText) < TextScore(second, searchText)
           /\ Score(second, searchText) = TextScore(second, searchText)
           /\ Score(first, searchText) = TextScore(first, searchText) + 15

====
